---- MODULE Spec2Model ----
(***************************************************************************)
(* The review-trust analysis pipeline of maps-review-analyzer:             *)
(* PatternDetector (src/content/core/pattern-detector.js) and              *)
(* ScoreCalculator (src/content/analyzer/score-calculator.js), with the    *)
(* configuration objects window.MRA_CONFIG (src/shared/config.js) and      *)
(* window.MRA_CONSTANTS (src/shared/constants.js) they read.               *)
(*                                                                         *)
(* JavaScript numbers are modelled as exact rationals [n |-> _, d |-> _]   *)
(* in lowest terms with d > 0; Math.round, Math.min and Math.max are the   *)
(* operators Round, QMin and QMax.                                         *)
(***************************************************************************)
EXTENDS Integers, Sequences, FiniteSets, TLC

VARIABLES
    pc,                 \* position of the caller: "idle", "detected", "failed", "scored"
    reviewData,         \* the ReviewDataset handed to the core
    detSettings,        \* PatternDetector.settings
    calcSettings,       \* ScoreCalculator.settings
    detection,          \* <<>> or <<the value or exception of detectAllPatterns>>
    suspicionFactors,   \* the factor map handed to calculateTrustScore
    suspiciousPatterns, \* the pattern list handed to calculateTrustScore
    result,             \* <<>> or <<the AnalysisResult of the last calculateTrustScore>>
    stages,             \* the values adjustedScore took in the last applyAdjustments
    calls,              \* log of calculateTrustScore calls: inputs and result
    analyzer,           \* the ReviewAnalyzer: its flag, timers and performAnalysis runs
    storage,            \* chrome.storage.local and the saveAnalysisResult calls in flight
    handler             \* the MessageHandler: the messages it was given

vars == <<pc, reviewData, detSettings, calcSettings, detection,
          suspicionFactors, suspiciousPatterns, result, stages, calls,
          analyzer, storage, handler>>

-----------------------------------------------------------------------------
(* Exact rational arithmetic.                                              *)

Abs(x) == IF x < 0 THEN -x ELSE x

RECURSIVE GCD(_, _)
GCD(a, b) == IF b = 0 THEN a ELSE GCD(b, a % b)

Q(n, d) ==
    LET g == GCD(Abs(n), d)
    IN  [n |-> n \div g, d |-> d \div g]

QInt(k) == [n |-> k, d |-> 1]

QAdd(a, b) == Q(a.n * b.d + b.n * a.d, a.d * b.d)

QSub(a, b) == Q(a.n * b.d - b.n * a.d, a.d * b.d)

QMul(a, b) == Q(a.n * b.n, a.d * b.d)

QLt(a, b) == a.n * b.d < b.n * a.d

QLe(a, b) == a.n * b.d <= b.n * a.d

QMin(a, b) == IF QLt(b, a) THEN b ELSE a

QMax(a, b) == IF QLt(a, b) THEN b ELSE a

\* Math.round: the nearest integer, halves rounded up
Round(q) == (2 * q.n + q.d) \div (2 * q.d)

-----------------------------------------------------------------------------
(* src/shared/constants.js                                                 *)

ANALYSIS_MODES == [LENIENT |-> "lenient", STANDARD |-> "standard", STRICT |-> "strict"]

SEVERITY_LEVELS == [LOW |-> "low", MEDIUM |-> "medium", HIGH |-> "high"]

PATTERN_TYPES ==
    [POLARIZED_RATINGS  |-> "polarized_ratings",
     BURST_POSTING      |-> "burst_posting",
     SHORT_REVIEWS      |-> "short_reviews",
     DUPLICATE_PATTERNS |-> "duplicate_patterns",
     NEW_ACCOUNTS       |-> "new_accounts"]

TRUST_SCORE_THRESHOLDS == [HIGH |-> 80, MEDIUM |-> 60, LOW |-> 40]

ANALYSIS_CONSTANTS ==
    [POLARIZED_THRESHOLDS      |-> [strict |-> Q(6, 10), standard |-> Q(7, 10),
                                    lenient |-> Q(8, 10)],
     BURST_POSTING_THRESHOLD   |-> Q(3, 10),
     SHORT_REVIEW_THRESHOLD    |-> Q(4, 10),
     NEW_ACCOUNT_THRESHOLD     |-> Q(3, 10),
     TEXT_SIMILARITY_THRESHOLD |-> Q(8, 10),
     SHORT_REVIEW_LENGTH       |-> 10,
     SUSPICIOUS_REVIEW_LENGTH  |-> 20,
     MAX_HISTORY_ITEMS         |-> 20,
     MAX_DISPLAY_HISTORY       |-> 5]

\* window.MRA_CONSTANTS: the keys the core reads (the others hold no analysis data)
MRA_CONSTANTS ==
    [ANALYSIS_MODES         |-> ANALYSIS_MODES,
     SEVERITY_LEVELS        |-> SEVERITY_LEVELS,
     PATTERN_TYPES          |-> PATTERN_TYPES,
     TRUST_SCORE_THRESHOLDS |-> TRUST_SCORE_THRESHOLDS,
     ANALYSIS_CONSTANTS     |-> ANALYSIS_CONSTANTS]

-----------------------------------------------------------------------------
(* src/shared/config.js                                                    *)

ANALYSIS_WEIGHTS ==
    [polarizedRatings  |-> [weight |-> Q(10, 10), maxScore |-> 90],
     burstPosting      |-> [weight |-> Q(8, 10),  maxScore |-> 80],
     shortReviews      |-> [weight |-> Q(6, 10),  maxScore |-> 60],
     duplicatePatterns |-> [weight |-> Q(12, 10), maxScore |-> 100],
     newAccounts       |-> [weight |-> Q(5, 10),  maxScore |-> 50]]

\* I18N_CONFIG.RECENT_DATE_PATTERNS: the locales getRecentDateKeywords looks up
I18N_CONFIG == [RECENT_DATE_PATTERNS |-> [ja |-> "ja-patterns", en |-> "en-patterns"]]

\* window.MRA_CONFIG as config.js assembles it: eleven keys, none of them
\* ANALYSIS_CONSTANTS.  The values of the keys the core never reads are opaque.
MRA_CONFIG ==
    [DEFAULT_SETTINGS   |-> "opaque",
     SETTINGS_SCHEMA    |-> "opaque",
     URL_PATTERNS       |-> "opaque",
     PERFORMANCE_CONFIG |-> "opaque",
     I18N_CONFIG        |-> I18N_CONFIG,
     ANALYSIS_WEIGHTS   |-> ANALYSIS_WEIGHTS,
     FEATURE_FLAGS      |-> "opaque",
     API_CONFIG         |-> "opaque",
     SECURITY_CONFIG    |-> "opaque",
     CONFIG_VALIDATORS  |-> "opaque",
     CONFIG_UTILS       |-> "opaque"]

-----------------------------------------------------------------------------
(* ScoreCalculator                                                         *)

\* constructor: this.constants = window.MRA_CONSTANTS; this.config = window.MRA_CONFIG
ScoreCalculator_constants == MRA_CONSTANTS

ScoreCalculator_config == MRA_CONFIG

\* the insertion order of the factor keys (detectAllPatterns creates the map)
FactorOrder ==
    <<"polarizedRatings", "burstPosting", "shortReviews", "duplicatePatterns",
      "newAccounts">>

\* this.settings.analysisMode || "standard"
ModeOf(settings) ==
    IF "analysisMode" \in DOMAIN settings /\ settings.analysisMode # ""
    THEN settings.analysisMode
    ELSE "standard"

\* the value undefined of a property that holds no number
undefined == [undefined |-> TRUE]

\* value || 0
OrZero(value) == IF value = undefined THEN QInt(0) ELSE value

\* every factor weighted 1.0
RECURSIVE WeightedSumUnweighted(_, _, _)
WeightedSumUnweighted(factors, weights, keys) ==
    IF keys = {} THEN QInt(0)
    ELSE LET factor == CHOOSE k \in keys : TRUE
         IN  QAdd(OrZero(factors[factor]),
                  WeightedSumUnweighted(factors, weights, keys \ {factor}))

RECURSIVE WeightedSum(_, _, _)
WeightedSum(factors, weights, keys) ==
    IF keys = {} THEN QInt(0)
    ELSE LET factor == CHOOSE k \in keys : TRUE
             value  == OrZero(factors[factor])
             weight == IF factor \in DOMAIN weights /\ weights[factor].weight # QInt(0)
                       THEN weights[factor].weight ELSE QInt(1)
         IN  QAdd(QMul(value, weight),
                  WeightedSum(factors, weights, keys \ {factor}))

\* a sign slip: the weighted suspicion is added to 100
calculateBaseScoreAdded(factors) ==
    LET weights == ScoreCalculator_config.ANALYSIS_WEIGHTS
    IN  QAdd(QInt(100), WeightedSum(factors, weights, DOMAIN factors))

calculateBaseScore(factors) ==
    LET weights == ScoreCalculator_config.ANALYSIS_WEIGHTS
    IN  QSub(QInt(100), WeightedSum(factors, weights, DOMAIN factors))

\* the bonus for many reviews without its cap at 100
adjustForReviewCountUncapped(score, data) ==
    LET totalReviews == data.totalReviews
    IN  IF totalReviews < 10 THEN QMul(score, Q(9, 10))
        ELSE IF totalReviews < 5 THEN QMul(score, Q(8, 10))
        ELSE IF totalReviews > 100 THEN QMul(score, Q(105, 100))
        ELSE score

adjustForReviewCount(score, data) ==
    LET totalReviews == data.totalReviews
    IN  IF totalReviews < 10 THEN QMul(score, Q(9, 10))
        ELSE IF totalReviews < 5 THEN QMul(score, Q(8, 10))
        ELSE IF totalReviews > 100 THEN QMin(QMul(score, Q(105, 100)), QInt(100))
        ELSE score

RECURSIVE SeverityAdjustment(_)
SeverityAdjustment(patterns) ==
    IF patterns = <<>> THEN 0
    ELSE LET severity == Head(patterns).severity
             step == IF severity = ScoreCalculator_constants.SEVERITY_LEVELS.HIGH THEN -5
                     ELSE IF severity = ScoreCalculator_constants.SEVERITY_LEVELS.MEDIUM
                          THEN -2
                     ELSE 0
         IN  step + SeverityAdjustment(Tail(patterns))

\* every pattern counted as one of high severity
adjustForPatternSeverityFlat(score, patterns) ==
    QSub(score, QInt(5 * Len(patterns)))

\* the adjustment kept on the instance and not reset between calls
adjustForPatternSeverityKept(score, patterns) ==
    QAdd(score, QInt(SeverityAdjustment(patterns) * (Len(calls) + 1)))

adjustForPatternSeverity(score, patterns) ==
    QAdd(score, QInt(SeverityAdjustment(patterns)))

\* an ideal distribution with the same ratio for every star
UniformTwentieths == <<4, 4, 4, 4, 4>>

\* The ideal ratios 0.05, 0.05, 0.15, 0.35, 0.4 in twentieths
IdealTwentieths == <<1, 1, 3, 7, 8>>

RECURSIVE SquaredDifference(_, _, _)
SquaredDifference(ratings, totalReviews, i) ==
    IF i > 5 THEN 0
    ELSE LET difference == 20 * ratings[i] - IdealTwentieths[i] * totalReviews
         IN  difference * difference + SquaredDifference(ratings, totalReviews, i + 1)

\* The value max(0, 1 - sqrt(totalDifference)) is kept exact as the pair
\* [sq, den] standing for max(0, 1 - sqrt(sq)/den); the early return 0 for
\* totalReviews = 0 is the pair [1, 1].
calculateRatingNaturalness(ratings, totalReviews) ==
    IF totalReviews = 0 THEN [sq |-> 1, den |-> 1]
    ELSE [sq |-> SquaredDifference(ratings, totalReviews, 1), den |-> 20 * totalReviews]

\* naturalness > a/b and naturalness < a/b, for 0 < a < b
NaturalnessAbove(nat, a, b) == nat.sq * b * b < (b - a) * (b - a) * nat.den * nat.den

NaturalnessBelow(nat, a, b) == nat.sq * b * b > (b - a) * (b - a) * nat.den * nat.den

NaturalnessIsZero(nat) == nat.sq >= nat.den * nat.den

NaturalnessIsOne(nat) == nat.sq = 0

\* the adjustment without the skip for fewer than 5 reviews
adjustForRatingNaturalnessAlways(score, data) ==
    LET naturalness == calculateRatingNaturalness(data.ratings, data.totalReviews)
    IN  IF NaturalnessAbove(naturalness, 8, 10)
        THEN QMin(QMul(score, Q(103, 100)), QInt(100))
        ELSE IF NaturalnessBelow(naturalness, 3, 10)
        THEN QMul(score, Q(95, 100))
        ELSE score

adjustForRatingNaturalness(score, data) ==
    IF data.totalReviews < 5 THEN score
    ELSE LET naturalness == calculateRatingNaturalness(data.ratings, data.totalReviews)
         IN  IF NaturalnessAbove(naturalness, 8, 10)
             THEN QMin(QMul(score, Q(103, 100)), QInt(100))
             ELSE IF NaturalnessBelow(naturalness, 3, 10)
             THEN QMul(score, Q(95, 100))
             ELSE score

\* the lenient bonus without its cap
adjustForAnalysisModeUncapped(settings, score) ==
    LET mode == ModeOf(settings)
    IN  IF mode = ScoreCalculator_constants.ANALYSIS_MODES.STRICT
        THEN QMul(score, Q(95, 100))
        ELSE IF mode = ScoreCalculator_constants.ANALYSIS_MODES.LENIENT
        THEN QMul(score, Q(105, 100))
        ELSE score

adjustForAnalysisMode(settings, score) ==
    LET mode == ModeOf(settings)
    IN  IF mode = ScoreCalculator_constants.ANALYSIS_MODES.STRICT
        THEN QMul(score, Q(95, 100))
        ELSE IF mode = ScoreCalculator_constants.ANALYSIS_MODES.LENIENT
        THEN QMin(QMul(score, Q(105, 100)), QInt(100))
        ELSE score

\* the successive values of adjustedScore in applyAdjustments: the base score,
\* then the value after each of the four adjustments
AdjustmentStages(settings, baseScore, patterns, data) ==
    LET afterCount == adjustForReviewCount(baseScore, data)
        afterSeverity == adjustForPatternSeverity(afterCount, patterns)
        afterNaturalness == adjustForRatingNaturalness(afterSeverity, data)
        afterMode == adjustForAnalysisMode(settings, afterNaturalness)
    IN  <<baseScore, afterCount, afterSeverity, afterNaturalness, afterMode>>

applyAdjustments(settings, baseScore, patterns, data) ==
    AdjustmentStages(settings, baseScore, patterns, data)[5]

determineTrustLevel(score) ==
    LET thresholds == ScoreCalculator_constants.TRUST_SCORE_THRESHOLDS
    IN  IF QLe(QInt(thresholds.HIGH), score) THEN "high"
        ELSE IF QLe(QInt(thresholds.MEDIUM), score) THEN "medium"
        ELSE IF QLe(QInt(thresholds.LOW), score) THEN "low"
        ELSE "very_low"

\* suspiciousPatterns.filter(p => p.severity === HIGH)
HighSeverityPatterns(patterns) ==
    SelectSeq(patterns,
        LAMBDA p : p.severity = ScoreCalculator_constants.SEVERITY_LEVELS.HIGH)

PatternTypes(patterns) == [i \in 1..Len(patterns) |-> patterns[i].type]

\* Object.keys(suspicionFactors).reduce((max, key) => f[key] > f[max] ? key : max):
\* the first key, in insertion order, that attains the maximum
RECURSIVE MaxFactorFrom(_, _, _)
MaxFactorFrom(factors, max, i) ==
    IF i > Len(FactorOrder) THEN max
    ELSE LET key == FactorOrder[i]
         IN  MaxFactorFrom(factors,
                           IF QLt(factors[max], factors[key]) THEN key ELSE max,
                           i + 1)

\* the first concern built from every pattern, whatever its severity
identifyMainConcernsAnySeverity(patterns, factors) ==
    LET maxFactor == MaxFactorFrom(factors, FactorOrder[1], 2)
        first == IF Len(patterns) > 0
                 THEN <<[type     |-> "high_severity_patterns",
                         count    |-> Len(patterns),
                         patterns |-> PatternTypes(patterns)]>>
                 ELSE <<>>
        second == IF QLt(QInt(30), factors[maxFactor])
                  THEN <<[type   |-> "dominant_factor",
                          factor |-> maxFactor,
                          score  |-> factors[maxFactor]]>>
                  ELSE <<>>
    IN  first \o second

\* a dominant_factor concern for every factor above 30
identifyMainConcernsEveryFactor(patterns, factors) ==
    LET highSeverityPatterns == HighSeverityPatterns(patterns)
        first == IF Len(highSeverityPatterns) > 0
                 THEN <<[type     |-> "high_severity_patterns",
                         count    |-> Len(highSeverityPatterns),
                         patterns |-> PatternTypes(highSeverityPatterns)]>>
                 ELSE <<>>
        above == SelectSeq(FactorOrder, LAMBDA k : QLt(QInt(30), factors[k]))
    IN  first \o [i \in 1..Len(above) |->
                     [type |-> "dominant_factor", factor |-> above[i],
                      score |-> factors[above[i]]]]

identifyMainConcerns(patterns, factors) ==
    LET highSeverityPatterns == HighSeverityPatterns(patterns)
        maxFactor == MaxFactorFrom(factors, FactorOrder[1], 2)
        first == IF Len(highSeverityPatterns) > 0
                 THEN <<[type     |-> "high_severity_patterns",
                         count    |-> Len(highSeverityPatterns),
                         patterns |-> PatternTypes(highSeverityPatterns)]>>
                 ELSE <<>>
        second == IF QLt(QInt(30), factors[maxFactor])
                  THEN <<[type   |-> "dominant_factor",
                          factor |-> maxFactor,
                          score  |-> factors[maxFactor]]>>
                  ELSE <<>>
    IN  first \o second

identifyPositiveFactors(data, patterns) ==
    LET naturalness == calculateRatingNaturalness(data.ratings, data.totalReviews)
    IN  (IF data.totalReviews >= 50 THEN <<"sufficient_reviews">> ELSE <<>>)
        \o (IF Len(patterns) = 0 THEN <<"no_suspicious_patterns">> ELSE <<>>)
        \o (IF NaturalnessAbove(naturalness, 7, 10)
            THEN <<"natural_distribution">> ELSE <<>>)

\* high_risk only from the third concern on
generateRecommendationsLate(concerns, positives) ==
    LET risk == IF Len(concerns) = 0 THEN "low_risk"
                ELSE IF Len(concerns) > 2 THEN "high_risk"
                ELSE "moderate_risk"
        hasHighSeverity ==
            \E i \in 1..Len(concerns) : concerns[i].type = "high_severity_patterns"
    IN  <<risk>> \o (IF hasHighSeverity THEN <<"detailed_check">> ELSE <<>>)

generateRecommendations(concerns, positives) ==
    LET risk == IF Len(concerns) = 0 THEN "low_risk"
                ELSE IF Len(concerns) >= 2 THEN "high_risk"
                ELSE "moderate_risk"
        hasHighSeverity ==
            \E i \in 1..Len(concerns) : concerns[i].type = "high_severity_patterns"
    IN  <<risk>> \o (IF hasHighSeverity THEN <<"detailed_check">> ELSE <<>>)

generateScoreDetails(settings, factors, patterns, data) ==
    LET mainConcerns == identifyMainConcerns(patterns, factors)
        positiveFactors == identifyPositiveFactors(data, patterns)
    IN  [totalReviews     |-> data.totalReviews,
         analysisMode     |-> ModeOf(settings),
         patternsDetected |-> Len(patterns),
         mainConcerns     |-> mainConcerns,
         positiveFactors  |-> positiveFactors,
         recommendations  |-> generateRecommendations(mainConcerns, positiveFactors)]

RECURSIVE FactorSum(_, _)
FactorSum(factors, keys) ==
    IF keys = {} THEN QInt(0)
    ELSE LET k == CHOOSE x \in keys : TRUE
         IN  QAdd(factors[k], FactorSum(factors, keys \ {k}))

calculateConfidence(factors, finalScore) ==
    LET factorCount == Cardinality({k \in DOMAIN factors : QLt(QInt(0), factors[k])})
        avgFactor == QMul(FactorSum(factors, DOMAIN factors), Q(1, 5))
        c0 == Q(8, 10)
        c1 == IF QLt(QInt(90), finalScore) \/ QLt(finalScore, QInt(20))
              THEN QSub(c0, Q(1, 10)) ELSE c0
        c2 == IF factorCount >= 3 THEN QAdd(c1, Q(1, 10)) ELSE c1
        c3 == IF QLt(QInt(20), avgFactor) THEN QAdd(c2, Q(5, 100)) ELSE c2
    IN  QMax(Q(5, 10), QMin(QInt(1), c3))

\* the argument object itself stored in the breakdown
SharedReference(factors) == [object |-> "argument", entries |-> factors]

\* { ...suspicionFactors }: a new object with the entries of the argument
SpreadCopy(factors) == [object |-> "fresh", entries |-> factors]

createScoreBreakdown(factors, baseScore, adjustedScore, finalScore) ==
    [suspicionFactors |-> SpreadCopy(factors),
     baseScore        |-> Round(baseScore),
     adjustedScore    |-> Round(adjustedScore),
     finalScore       |-> Round(finalScore),
     adjustments      |-> Round(QSub(adjustedScore, baseScore)),
     confidence       |-> calculateConfidence(factors, finalScore)]

\* the clamp without its lower bound
ClampScoreNoFloor(adjustedScore) == QMin(QInt(100), adjustedScore)

\* Math.max(10, Math.min(100, adjustedScore))
ClampScore(adjustedScore) == QMax(QInt(10), QMin(QInt(100), adjustedScore))

\* calculateTrustScore(suspicionFactors, suspiciousPatterns, reviewData) of the
\* calculator whose this.settings is `settings`
calculateTrustScore(settings, factors, patterns, data) ==
    LET baseScore == calculateBaseScore(factors)
        adjustedScore == applyAdjustments(settings, baseScore, patterns, data)
        finalScore == ClampScore(adjustedScore)
    IN  [score     |-> Round(finalScore),
         level     |-> determineTrustLevel(finalScore),
         details   |-> generateScoreDetails(settings, factors, patterns, data),
         breakdown |-> createScoreBreakdown(factors, baseScore, adjustedScore,
                                            finalScore)]

-----------------------------------------------------------------------------
(* PatternDetector                                                         *)
(*                                                                         *)
(* A review text is the sequence of its whitespace-separated words (joined *)
(* by single spaces); a dateText is the sequence of its pieces, cut finely *)
(* enough that every keyword of getRecentDateKeywords is a run of pieces.  *)
(* The Japanese pieces are romanised: nichi, shuu, kan, ji, fun, mae.      *)
(* An operation ends in a value or in an exception: [outcome |-> "threw"]. *)

\* constructor: this.constants = window.MRA_CONSTANTS; this.config = window.MRA_CONFIG
PatternDetector_constants == MRA_CONSTANTS

PatternDetector_config == MRA_CONFIG

\* obj.key is undefined, so that obj.key.x throws a TypeError
Undefined(obj, key) == key \notin DOMAIN obj

Threw == [outcome |-> "threw"]

NotDetected == [outcome |-> "not_detected"]

Detected(score, pattern) == [outcome |-> "detected", score |-> score, pattern |-> pattern]

RECURSIVE SumLen(_)
SumLen(words) == IF words = <<>> THEN 0 ELSE Len(Head(words)) + SumLen(Tail(words))

\* text.length
TextLength(text) == IF text = <<>> THEN 0 ELSE SumLen(text) + Len(text) - 1

\* String.prototype.toLowerCase on the words of the vocabulary
ToLowerCase(word) ==
    CASE word = "Great" -> "great"
      [] word = "FOOD"  -> "food"
      [] OTHER          -> word

\* new Set(text.toLowerCase().split(/\s+/))
WordSet(text) == {ToLowerCase(text[i]) : i \in 1..Len(text)}

\* the token sets built without toLowerCase
calculateTextSimilarityCaseSensitive(text1, text2) ==
    IF text1 = <<>> \/ text2 = <<>> THEN QInt(0)
    ELSE LET words1 == {text1[i] : i \in 1..Len(text1)}
             words2 == {text2[i] : i \in 1..Len(text2)}
         IN  Q(Cardinality(words1 \cap words2), Cardinality(words1 \cup words2))

calculateTextSimilarity(text1, text2) ==
    IF text1 = <<>> \/ text2 = <<>> THEN QInt(0)
    ELSE LET words1 == WordSet(text1)
             words2 == WordSet(text2)
             intersection == words1 \cap words2
             union == words1 \cup words2
         IN  IF Cardinality(union) > 0
             THEN Q(Cardinality(intersection), Cardinality(union))
             ELSE QInt(0)

\* the pairs (i, j), i < j, in loop order, whose similarity exceeds the threshold
SimilarPairs(texts, threshold) ==
    {p \in (1..Len(texts)) \X (1..Len(texts)) :
        /\ p[1] < p[2]
        /\ QLt(threshold, calculateTextSimilarity(texts[p[1]], texts[p[2]]))}

findSimilarTexts(texts) ==
    IF Undefined(PatternDetector_config, "ANALYSIS_CONSTANTS") THEN Threw
    ELSE LET threshold ==
                 PatternDetector_config.ANALYSIS_CONSTANTS.TEXT_SIMILARITY_THRESHOLD
         IN  [outcome |-> "returned", similarities |-> SimilarPairs(texts, threshold)]

getRecentDateKeywords ==
    {<<"nichi", "mae">>, <<"shuu", "kan", "mae">>, <<"ji", "kan", "mae">>,
     <<"fun", "mae">>,
     <<"day", " ", "ago">>, <<"week", " ", "ago">>, <<"hour", " ", "ago">>,
     <<"minute", " ", "ago">>,
     <<"day", "s", " ", "ago">>, <<"week", "s", " ", "ago">>,
     <<"hour", "s", " ", "ago">>, <<"minute", "s", " ", "ago">>}

\* String.prototype.includes
Includes(text, keyword) ==
    \E start \in 1..(Len(text) - Len(keyword) + 1) :
        SubSeq(text, start, start + Len(keyword) - 1) = keyword

\* this.settings.minimumReviewsForAnalysis || 5
MinReviewsOf(settings) ==
    IF "minimumReviewsForAnalysis" \in DOMAIN settings
       /\ settings.minimumReviewsForAnalysis # 0
    THEN settings.minimumReviewsForAnalysis
    ELSE 5

detectPolarizedRatings(settings, data) ==
    LET ratings == data.ratings
        totalReviews == data.totalReviews
        minReviews == MinReviewsOf(settings)
        extremeRatings == ratings[1] + ratings[5]
        middleRatings == ratings[2] + ratings[3] + ratings[4]
    IN  IF totalReviews < minReviews THEN NotDetected
        ELSE IF totalReviews = 0 THEN NotDetected
        ELSE IF Undefined(PatternDetector_config, "ANALYSIS_CONSTANTS") THEN Threw
        ELSE LET extremeRatio == Q(extremeRatings, totalReviews)
                 middleRatio == Q(middleRatings, totalReviews)
                 thresholds ==
                     PatternDetector_config.ANALYSIS_CONSTANTS.POLARIZED_THRESHOLDS
                 threshold ==
                     IF "analysisMode" \in DOMAIN settings
                        /\ settings.analysisMode \in DOMAIN thresholds
                     THEN thresholds[settings.analysisMode]
                     ELSE thresholds.standard
             IN  IF QLt(threshold, extremeRatio) /\ QLt(middleRatio, Q(2, 10))
                 THEN LET w == PatternDetector_config.ANALYSIS_WEIGHTS.polarizedRatings
                          score == QMin(QMul(QMul(extremeRatio, QInt(100)), w.weight),
                                        QInt(w.maxScore))
                      IN  Detected(score,
                              [type     |-> PatternDetector_constants.PATTERN_TYPES
                                                .POLARIZED_RATINGS,
                               severity |-> PatternDetector_constants.SEVERITY_LEVELS.HIGH])
                 ELSE NotDetected

detectBurstPosting(settings, data) ==
    LET recentReviews == data.recentReviews
        recentCount ==
            Cardinality({i \in 1..Len(recentReviews) :
                \E keyword \in getRecentDateKeywords :
                    Includes(recentReviews[i].dateText, keyword)})
    IN  IF Len(recentReviews) = 0 THEN NotDetected
        ELSE IF Undefined(PatternDetector_config, "I18N_CONFIG") THEN Threw
        ELSE IF recentCount > 5
        THEN IF Undefined(PatternDetector_config, "ANALYSIS_CONSTANTS") THEN Threw
             ELSE LET totalReviews ==
                          IF data.totalReviews > Len(recentReviews)
                          THEN data.totalReviews ELSE Len(recentReviews)
                      burstRatio == Q(recentCount, totalReviews)
                      threshold ==
                          PatternDetector_config.ANALYSIS_CONSTANTS.BURST_POSTING_THRESHOLD
                  IN  IF QLt(threshold, burstRatio)
                      THEN LET w == PatternDetector_config.ANALYSIS_WEIGHTS.burstPosting
                               score == QMin(QMul(QMul(burstRatio, QInt(100)), w.weight),
                                             QInt(w.maxScore))
                           IN  Detected(score,
                                   [type     |-> PatternDetector_constants.PATTERN_TYPES
                                                     .BURST_POSTING,
                                    severity |-> PatternDetector_constants.SEVERITY_LEVELS
                                                     .MEDIUM])
                      ELSE NotDetected
        ELSE NotDetected

detectShortReviews(settings, data) ==
    LET recentReviews == data.recentReviews
    IN  IF Len(recentReviews) = 0 THEN NotDetected
        ELSE IF Undefined(PatternDetector_config, "ANALYSIS_CONSTANTS") THEN Threw
        ELSE LET shortLength ==
                     PatternDetector_config.ANALYSIS_CONSTANTS.SHORT_REVIEW_LENGTH
                 shortCount ==
                     Cardinality({i \in 1..Len(recentReviews) :
                         /\ recentReviews[i].textLength > 0
                         /\ recentReviews[i].textLength < shortLength})
                 shortRatio == Q(shortCount, Len(recentReviews))
                 threshold ==
                     PatternDetector_config.ANALYSIS_CONSTANTS.SHORT_REVIEW_THRESHOLD
             IN  IF QLt(threshold, shortRatio)
                 THEN LET w == PatternDetector_config.ANALYSIS_WEIGHTS.shortReviews
                          score == QMin(QMul(QMul(shortRatio, QInt(100)), w.weight),
                                        QInt(w.maxScore))
                      IN  Detected(score,
                              [type     |-> PatternDetector_constants.PATTERN_TYPES
                                                .SHORT_REVIEWS,
                               severity |-> PatternDetector_constants.SEVERITY_LEVELS.LOW])
                 ELSE NotDetected

detectDuplicatePatterns(settings, data) ==
    LET recentReviews == data.recentReviews
        allTexts == [i \in 1..Len(recentReviews) |-> recentReviews[i].text]
        reviewTexts == SelectSeq(allTexts, LAMBDA text : TextLength(text) > 5)
    IN  IF Len(recentReviews) < 3 THEN NotDetected
        ELSE IF Len(reviewTexts) < 3 THEN NotDetected
        ELSE LET found == findSimilarTexts(reviewTexts)
             IN  IF found.outcome = "threw" THEN Threw
                 ELSE IF Cardinality(found.similarities) > 0
                 THEN LET w == PatternDetector_config.ANALYSIS_WEIGHTS.duplicatePatterns
                          baseScore == Cardinality(found.similarities) * 15
                          score == QMin(QMul(QInt(baseScore), w.weight),
                                        QInt(w.maxScore))
                      IN  Detected(score,
                              [type     |-> PatternDetector_constants.PATTERN_TYPES
                                                .DUPLICATE_PATTERNS,
                               severity |-> PatternDetector_constants.SEVERITY_LEVELS.HIGH])
                 ELSE NotDetected

detectNewAccounts(settings, data) ==
    LET recentReviews == data.recentReviews
    IN  IF Len(recentReviews) = 0 THEN NotDetected
        ELSE IF Undefined(PatternDetector_config, "ANALYSIS_CONSTANTS") THEN Threw
        ELSE LET suspiciousLength ==
                     PatternDetector_config.ANALYSIS_CONSTANTS.SUSPICIOUS_REVIEW_LENGTH
                 suspiciousCount ==
                     Cardinality({i \in 1..Len(recentReviews) :
                         /\ ~recentReviews[i].hasPhotos
                         /\ recentReviews[i].textLength > 0
                         /\ recentReviews[i].textLength < suspiciousLength})
                 suspiciousRatio == Q(suspiciousCount, Len(recentReviews))
                 threshold ==
                     PatternDetector_config.ANALYSIS_CONSTANTS.NEW_ACCOUNT_THRESHOLD
             IN  IF QLt(threshold, suspiciousRatio)
                 THEN LET w == PatternDetector_config.ANALYSIS_WEIGHTS.newAccounts
                          score == QMin(QMul(QMul(suspiciousRatio, QInt(100)), w.weight),
                                        QInt(w.maxScore))
                      IN  Detected(score,
                              [type     |-> PatternDetector_constants.PATTERN_TYPES
                                                .NEW_ACCOUNTS,
                               severity |-> PatternDetector_constants.SEVERITY_LEVELS
                                                .MEDIUM])
                 ELSE NotDetected

ZeroFactors == [k \in {FactorOrder[i] : i \in 1..Len(FactorOrder)} |-> QInt(0)]

\* the five heuristics in the order detectAllPatterns runs them
Heuristics(settings, data) ==
    <<[factor |-> "polarizedRatings",  found |-> detectPolarizedRatings(settings, data)],
      [factor |-> "burstPosting",      found |-> detectBurstPosting(settings, data)],
      [factor |-> "shortReviews",      found |-> detectShortReviews(settings, data)],
      [factor |-> "duplicatePatterns", found |-> detectDuplicatePatterns(settings, data)],
      [factor |-> "newAccounts",       found |-> detectNewAccounts(settings, data)]>>

\* the statements of detectAllPatterns from heuristic i on, with the factor map
\* and the pattern list built so far
RECURSIVE DetectFrom(_, _, _, _)
DetectFrom(heuristics, i, factors, patterns) ==
    IF i > Len(heuristics)
    THEN [outcome |-> "returned", suspicionFactors |-> factors,
          suspiciousPatterns |-> patterns]
    ELSE LET h == heuristics[i]
         IN  IF h.found.outcome = "threw" THEN Threw
             ELSE IF h.found.outcome = "detected"
             THEN DetectFrom(heuristics, i + 1,
                             [factors EXCEPT ![h.factor] = h.found.score],
                             Append(patterns, h.found.pattern))
             ELSE DetectFrom(heuristics, i + 1, factors, patterns)

detectAllPatterns(settings, data) ==
    DetectFrom(Heuristics(settings, data), 1, ZeroFactors, <<>>)

-----------------------------------------------------------------------------
(* Bounds and input domains                                                *)

MaxNonZeroFactors == 2

MaxPatterns == 1

MaxCopies == 2

MaxCalls == 2

MaxWords == 2

FactorKeys == {FactorOrder[i] : i \in 1..Len(FactorOrder)}

FactorValues == {0, 16, 60}

FactorMaps ==
    {[k \in FactorKeys |-> QInt(f[k])] :
        f \in {g \in [FactorKeys -> FactorValues] :
                  Cardinality({k \in FactorKeys : g[k] # 0}) <= MaxNonZeroFactors}}

PatternPool ==
    {[type |-> PATTERN_TYPES.POLARIZED_RATINGS, severity |-> SEVERITY_LEVELS.HIGH],
     [type |-> PATTERN_TYPES.BURST_POSTING,     severity |-> SEVERITY_LEVELS.MEDIUM],
     [type |-> PATTERN_TYPES.SHORT_REVIEWS,     severity |-> SEVERITY_LEVELS.LOW]}

PatternLists == UNION {[1..n -> PatternPool] : n \in 0..MaxPatterns}

\* ratings: star value -> count
IdealRatings == <<5, 5, 15, 35, 40>>

PolarizedRatings == <<40, 2, 2, 2, 54>>

FiveStarRatings == <<0, 0, 0, 0, 100>>

SmallSkewedRatings == <<1, 0, 0, 0, 2>>

NoRatings == <<0, 0, 0, 0, 0>>

ScoreRatings == {IdealRatings, PolarizedRatings, FiveStarRatings}

ScoreTotals == {0, 3, 4, 5, 9, 10, 50, 100, 101}

DetectRatings == {NoRatings, IdealRatings, PolarizedRatings, SmallSkewedRatings}

DetectTotals == {0, 3, 7, 100}

\* Settings objects: the three modes, an unrecognized mode, a lower minimum,
\* and an object with no keys
SettingsPool ==
    {[analysisMode |-> "standard", minimumReviewsForAnalysis |-> 5],
     [analysisMode |-> "strict",   minimumReviewsForAnalysis |-> 5],
     [analysisMode |-> "lenient",  minimumReviewsForAnalysis |-> 5],
     [analysisMode |-> "turbo",    minimumReviewsForAnalysis |-> 5],
     [analysisMode |-> "standard", minimumReviewsForAnalysis |-> 3],
     <<>>}

ModeSettings == {s \in SettingsPool : MinReviewsOf(s) = 5}

\* DataExtractor.extractSingleReviewData: textLength is text.length
MakeReview(text, dateText, hasPhotos) ==
    [text |-> text, textLength |-> TextLength(text), dateText |-> dateText,
     hasPhotos |-> hasPhotos]

ReviewKinds ==
    <<MakeReview(<<"great", "food">>, <<"3", "nichi", "mae">>, FALSE),
      MakeReview(<<"Great", "FOOD">>, <<"2", " ", "month", "s", " ", "ago">>, TRUE),
      MakeReview(<<"awful">>, <<"1", " ", "day", " ", "ago">>, FALSE),
      MakeReview(<<>>, <<>>, FALSE),
      MakeReview(<<"slow", "service", "here">>, <<"5", " ", "hour", "s", " ", "ago">>,
                 TRUE)>>

RECURSIVE Copies(_, _)
Copies(x, n) == IF n = 0 THEN <<>> ELSE <<x>> \o Copies(x, n - 1)

RECURSIVE ReviewsOf(_, _)
ReviewsOf(counts, i) ==
    IF i > Len(ReviewKinds) THEN <<>>
    ELSE Copies(ReviewKinds[i], counts[i]) \o ReviewsOf(counts, i + 1)

\* recentReviews: up to MaxCopies reviews of each kind
RecentReviewLists ==
    {ReviewsOf(counts, 1) : counts \in [1..Len(ReviewKinds) -> 0..MaxCopies]}

-----------------------------------------------------------------------------
(* The caller: ReviewAnalyzer.performAnalysis runs detectAllPatterns and   *)
(* hands its value to calculateTrustScore; an exception ends the run in    *)
(* the catch block.                                                        *)

DetectAllPatterns ==
    /\ pc = "idle"
    /\ LET patternResult == detectAllPatterns(detSettings, reviewData)
       IN  /\ detection' = <<patternResult>>
           /\ IF patternResult.outcome = "threw"
              THEN /\ pc' = "failed"
                   /\ UNCHANGED <<suspicionFactors, suspiciousPatterns>>
              ELSE /\ pc' = "detected"
                   /\ suspicionFactors' = patternResult.suspicionFactors
                   /\ suspiciousPatterns' = patternResult.suspiciousPatterns
    /\ UNCHANGED <<analyzer, storage, handler>>
    /\ UNCHANGED <<reviewData, detSettings, calcSettings, result, stages, calls>>

CalculateTrustScore ==
    /\ pc = "detected"
    /\ LET scoreResult == calculateTrustScore(calcSettings, suspicionFactors,
                                              suspiciousPatterns, reviewData)
       IN  /\ result' = <<scoreResult>>
           /\ stages' = AdjustmentStages(calcSettings,
                                         calculateBaseScore(suspicionFactors),
                                         suspiciousPatterns, reviewData)
           /\ calls' = Append(calls, [settings |-> calcSettings,
                                      factors  |-> suspicionFactors,
                                      patterns |-> suspiciousPatterns,
                                      data     |-> reviewData,
                                      result   |-> scoreResult])
    /\ pc' = "scored"
    /\ UNCHANGED <<analyzer, storage, handler>>
    /\ UNCHANGED <<reviewData, detSettings, calcSettings, detection,
                   suspicionFactors, suspiciousPatterns>>

\* ReviewAnalyzer.updateComponents: both components get the new settings object
UpdateComponents(settings) ==
    /\ settings # calcSettings
    /\ detSettings' = settings
    /\ calcSettings' = settings
    /\ UNCHANGED <<analyzer, storage, handler>>
    /\ UNCHANGED <<pc, reviewData, detection, suspicionFactors, suspiciousPatterns,
                   result, stages, calls>>

\* the caller asks for the score of the same arguments again
CallAgain ==
    /\ pc = "scored"
    /\ Len(calls) < MaxCalls
    /\ pc' = "detected"
    /\ UNCHANGED <<analyzer, storage, handler>>
    /\ UNCHANGED <<reviewData, detSettings, calcSettings, detection,
                   suspicionFactors, suspiciousPatterns, result, stages, calls>>

\* the caller asks again with one suspicion factor raised
RaiseFactor(factor, value) ==
    /\ pc = "scored"
    /\ Len(calls) < MaxCalls
    /\ QLt(suspicionFactors[factor], QInt(value))
    /\ suspicionFactors' = [suspicionFactors EXCEPT ![factor] = QInt(value)]
    /\ pc' = "detected"
    /\ UNCHANGED <<analyzer, storage, handler>>
    /\ UNCHANGED <<reviewData, detSettings, calcSettings, detection,
                   suspiciousPatterns, result, stages, calls>>

\* calculateTrustScore on arbitrary well-formed arguments
InitScore ==
    /\ pc = "detected"
    /\ suspicionFactors \in FactorMaps
    /\ suspiciousPatterns \in PatternLists
    /\ \E ratings \in ScoreRatings, totalReviews \in ScoreTotals :
           reviewData = [ratings |-> ratings, totalReviews |-> totalReviews,
                         recentReviews |-> <<>>]
    /\ calcSettings \in ModeSettings
    /\ detSettings = calcSettings
    /\ detection = <<>>
    /\ result = <<>>
    /\ stages = <<>>
    /\ calls = <<>>
    /\ analyzer = <<>>
    /\ storage = <<>>
    /\ handler = <<>>

NextScore == CalculateTrustScore

SpecScore == InitScore /\ [][NextScore]_vars

\* the pipeline on an extracted dataset
InitDetect ==
    /\ pc = "idle"
    /\ \E ratings \in DetectRatings, totalReviews \in DetectTotals,
          recentReviews \in RecentReviewLists :
           reviewData = [ratings |-> ratings, totalReviews |-> totalReviews,
                         recentReviews |-> recentReviews]
    /\ detSettings \in SettingsPool
    /\ calcSettings = detSettings
    /\ detection = <<>>
    /\ suspicionFactors = ZeroFactors
    /\ suspiciousPatterns = <<>>
    /\ result = <<>>
    /\ stages = <<>>
    /\ calls = <<>>
    /\ analyzer = <<>>
    /\ storage = <<>>
    /\ handler = <<>>

NextDetect == DetectAllPatterns \/ CalculateTrustScore

SpecDetect == InitDetect /\ [][NextDetect]_vars

\* one calculator called repeatedly while its settings are replaced
InitCalls ==
    /\ pc = "detected"
    /\ suspicionFactors \in
           {ZeroFactors, [ZeroFactors EXCEPT !["polarizedRatings"] = QInt(16)]}
    /\ suspiciousPatterns \in PatternLists
    /\ \E totalReviews \in {3, 50, 101} :
           reviewData = [ratings |-> IdealRatings, totalReviews |-> totalReviews,
                         recentReviews |-> <<>>]
    /\ calcSettings \in ModeSettings
    /\ detSettings = calcSettings
    /\ detection = <<>>
    /\ result = <<>>
    /\ stages = <<>>
    /\ calls = <<>>
    /\ analyzer = <<>>
    /\ storage = <<>>
    /\ handler = <<>>

NextCalls ==
    \/ CalculateTrustScore
    \/ CallAgain
    \/ \E settings \in ModeSettings : UpdateComponents(settings)

SpecCalls == InitCalls /\ [][NextCalls]_vars

\* one calculator called repeatedly while one suspicion factor at a time is raised
NextRaise ==
    \/ CalculateTrustScore
    \/ \E factor \in FactorKeys, value \in FactorValues : RaiseFactor(factor, value)

SpecRaise == InitCalls /\ [][NextRaise]_vars

\* calculateTextSimilarity on two texts of up to MaxWords words
Vocabulary == {"great", "Great", "food", "awful"}

Texts == UNION {[1..n -> Vocabulary] : n \in 0..MaxWords}

CalculateTextSimilarity ==
    /\ pc = "idle"
    /\ result' = <<calculateTextSimilarity(reviewData.recentReviews[1].text,
                                           reviewData.recentReviews[2].text)>>
    /\ pc' = "compared"
    /\ UNCHANGED <<analyzer, storage, handler>>
    /\ UNCHANGED <<reviewData, detSettings, calcSettings, detection,
                   suspicionFactors, suspiciousPatterns, stages, calls>>

InitSimilarity ==
    /\ pc = "idle"
    /\ \E text1 \in Texts, text2 \in Texts :
           reviewData = [ratings |-> NoRatings, totalReviews |-> 2,
                         recentReviews |-> <<MakeReview(text1, <<>>, FALSE),
                                             MakeReview(text2, <<>>, FALSE)>>]
    /\ detSettings = <<>>
    /\ calcSettings = <<>>
    /\ detection = <<>>
    /\ suspicionFactors = ZeroFactors
    /\ suspiciousPatterns = <<>>
    /\ result = <<>>
    /\ stages = <<>>
    /\ calls = <<>>
    /\ analyzer = <<>>
    /\ storage = <<>>
    /\ handler = <<>>

NextSimilarity == CalculateTextSimilarity

SpecSimilarity == InitSimilarity /\ [][NextSimilarity]_vars

\* calculateRatingNaturalness on rating counts and a total, which need not agree
RatingCounts == {0, 5, 15, 35, 40}

NaturalnessTotals == {0, 3, 40, 100}

CalculateRatingNaturalness ==
    /\ pc = "idle"
    /\ result' = <<calculateRatingNaturalness(reviewData.ratings,
                                              reviewData.totalReviews)>>
    /\ pc' = "measured"
    /\ UNCHANGED <<analyzer, storage, handler>>
    /\ UNCHANGED <<reviewData, detSettings, calcSettings, detection,
                   suspicionFactors, suspiciousPatterns, stages, calls>>

InitNaturalness ==
    /\ pc = "idle"
    /\ \E ratings \in [1..5 -> RatingCounts], totalReviews \in NaturalnessTotals :
           reviewData = [ratings |-> ratings, totalReviews |-> totalReviews,
                         recentReviews |-> <<>>]
    /\ detSettings = <<>>
    /\ calcSettings = <<>>
    /\ detection = <<>>
    /\ suspicionFactors = ZeroFactors
    /\ suspiciousPatterns = <<>>
    /\ result = <<>>
    /\ stages = <<>>
    /\ calls = <<>>
    /\ analyzer = <<>>
    /\ storage = <<>>
    /\ handler = <<>>

NextNaturalness == CalculateRatingNaturalness

SpecNaturalness == InitNaturalness /\ [][NextNaturalness]_vars

\* the caller writes an entry of result.breakdown.suspicionFactors; the write
\* lands in every variable that refers to the same object
ChangeResultFactors(factor, value) ==
    /\ pc = "scored"
    /\ result[1].breakdown.suspicionFactors.entries[factor] # QInt(value)
    /\ result' = <<[result[1] EXCEPT
                       !.breakdown.suspicionFactors.entries[factor] = QInt(value)]>>
    /\ suspicionFactors' =
           IF result[1].breakdown.suspicionFactors.object = "argument"
           THEN [suspicionFactors EXCEPT ![factor] = QInt(value)]
           ELSE suspicionFactors
    /\ pc' = "changed"
    /\ UNCHANGED <<analyzer, storage, handler>>
    /\ UNCHANGED <<reviewData, detSettings, calcSettings, detection,
                   suspiciousPatterns, stages, calls>>

\* both operations on their arguments, then a write to the result
InitFrame ==
    \/ InitCalls
    \/ InitDetect /\ Len(reviewData.recentReviews) <= 1

NextFrame ==
    \/ DetectAllPatterns
    \/ CalculateTrustScore
    \/ \E factor \in FactorKeys, value \in FactorValues :
           ChangeResultFactors(factor, value)

SpecFrame == InitFrame /\ [][NextFrame]_vars

\* calculateBaseScore on factor maps that may lack a key, hold a key the
\* weight table does not know, or hold a property without a number
LooseFactorMaps ==
    UNION {[keys -> {undefined} \cup {QInt(v) : v \in FactorValues}] :
              keys \in SUBSET (FactorKeys \cup {"otherFactor"})}

CalculateBaseScore ==
    /\ pc = "idle"
    /\ result' = <<calculateBaseScore(suspicionFactors)>>
    /\ pc' = "based"
    /\ UNCHANGED <<analyzer, storage, handler>>
    /\ UNCHANGED <<reviewData, detSettings, calcSettings, detection,
                   suspicionFactors, suspiciousPatterns, stages, calls>>

InitBase ==
    /\ pc = "idle"
    /\ suspicionFactors \in LooseFactorMaps
    /\ reviewData = [ratings |-> NoRatings, totalReviews |-> 0, recentReviews |-> <<>>]
    /\ detSettings = <<>>
    /\ calcSettings = <<>>
    /\ detection = <<>>
    /\ suspiciousPatterns = <<>>
    /\ result = <<>>
    /\ stages = <<>>
    /\ calls = <<>>
    /\ analyzer = <<>>
    /\ storage = <<>>
    /\ handler = <<>>

NextBase == CalculateBaseScore

SpecBase == InitBase /\ [][NextBase]_vars

-----------------------------------------------------------------------------
(* ReviewAnalyzer: the triggers of performAnalysis and the isAnalyzing     *)
(* guard.  Every await of the code ends one action and starts the next.   *)

MaxRuns == 2

MaxTimers == 1

\* the component settings a ReviewAnalyzer can hold: the default ones and an
\* object a SETTINGS_UPDATED message installed
AnalyzerSettings ==
    {[analysisMode |-> "standard", minimumReviewsForAnalysis |-> 5],
     [analysisMode |-> "standard", minimumReviewsForAnalysis |-> 0]}

\* values of DataExtractor.extractReviewData
ExtractedData ==
    {[ratings |-> IdealRatings, totalReviews |-> 3,   recentReviews |-> <<>>],
     [ratings |-> IdealRatings, totalReviews |-> 100, recentReviews |-> <<>>],
     [ratings |-> IdealRatings, totalReviews |-> 0,   recentReviews |-> <<>>]}

\* this.settings.settings?.minimumReviewsForAnalysis ??
\* this.settings.minimumReviewsForAnalysis ?? 5
MinimumReviews(settings) ==
    IF "minimumReviewsForAnalysis" \in DOMAIN settings
    THEN settings.minimumReviewsForAnalysis
    ELSE 5

\* a call on its way to performAnalysis
NewRun(trigger, at) ==
    [trigger |-> trigger, at |-> at, extracted |-> FALSE, rendered |-> FALSE,
     saved |-> FALSE]

\* constructor and init: the flag is clear, no run exists, and the initial
\* timer is set when autoAnalysis is on
NewAnalyzer(settings, autoAnalysis) ==
    [isAnalyzing     |-> FALSE,
     settings        |-> settings,
     autoAnalysis    |-> autoAnalysis,
     analysisTimeout |-> IF autoAnalysis THEN "pending" ELSE "null",
     timers          |-> 0,
     runs            |-> <<>>]

\* clearTimeout(this.analysisTimeout); this.analysisTimeout = null
ClearAnalysisTimeout(a) ==
    IF a.analysisTimeout # "null" THEN [a EXCEPT !.analysisTimeout = "null"] ELSE a

\* performAnalysis up to its first await: the guard, then the flag
EnterPerformAnalysis(a, i) ==
    IF a.isAnalyzing
    THEN [a EXCEPT !.runs[i].at = "skipped"]
    ELSE [a EXCEPT !.isAnalyzing = TRUE, !.runs[i].at = "checking"]

\* the finally block of performAnalysis
LeavePerformAnalysis(a, i) ==
    [a EXCEPT !.isAnalyzing = FALSE, !.runs[i].at = "finished"]

\* the timer set by init fires: performAnalysisIfReady starts
AnalysisTimeoutFires ==
    /\ analyzer.analysisTimeout = "pending"
    /\ Len(analyzer.runs) < MaxRuns
    /\ analyzer' = [analyzer EXCEPT
                       !.analysisTimeout = "fired",
                       !.runs = Append(@, NewRun("auto", "readiness"))]
    /\ UNCHANGED <<pc, reviewData, detSettings, calcSettings, detection,
                   suspicionFactors, suspiciousPatterns, result, stages, calls,
                   storage, handler>>

\* a PAGE_LOADED message: a 2000 ms timer when autoAnalysis is on
PageLoaded ==
    /\ analyzer.autoAnalysis
    /\ analyzer.timers < MaxTimers
    /\ analyzer' = [analyzer EXCEPT !.timers = @ + 1]
    /\ UNCHANGED <<pc, reviewData, detSettings, calcSettings, detection,
                   suspicionFactors, suspiciousPatterns, result, stages, calls,
                   storage, handler>>

\* a PAGE_LOADED timer fires: performAnalysisIfReady starts
PageLoadedTimerFires ==
    /\ analyzer.timers > 0
    /\ Len(analyzer.runs) < MaxRuns
    /\ analyzer' = [analyzer EXCEPT
                       !.timers = @ - 1,
                       !.runs = Append(@, NewRun("page_loaded", "readiness"))]
    /\ UNCHANGED <<pc, reviewData, detSettings, calcSettings, detection,
                   suspicionFactors, suspiciousPatterns, result, stages, calls,
                   storage, handler>>

\* a MANUAL_ANALYSIS_REQUEST message: handleManualAnalysisRequest starts
ManualAnalysisRequest ==
    /\ Len(analyzer.runs) < MaxRuns
    /\ analyzer' = [analyzer EXCEPT
                       !.runs = Append(@, NewRun("manual", "readiness"))]
    /\ UNCHANGED <<pc, reviewData, detSettings, calcSettings, detection,
                   suspicionFactors, suspiciousPatterns, result, stages, calls,
                   storage, handler>>

\* reanalyze: the initial timer is cleared, then 500 ms of waiting
Reanalyze ==
    /\ Len(analyzer.runs) < MaxRuns
    /\ analyzer' = [ClearAnalysisTimeout(analyzer) EXCEPT
                       !.runs = Append(@, NewRun("reanalyze", "waiting"))]
    /\ UNCHANGED <<pc, reviewData, detSettings, calcSettings, detection,
                   suspicionFactors, suspiciousPatterns, result, stages, calls,
                   storage, handler>>

\* checkPageReadiness resolves in performAnalysisIfReady or in
\* handleManualAnalysisRequest: performAnalysis is called only for a ready page
CheckedReadiness(i, isReady) ==
    /\ i \in 1..Len(analyzer.runs)
    /\ analyzer.runs[i].at = "readiness"
    /\ analyzer' = IF isReady THEN EnterPerformAnalysis(analyzer, i)
                   ELSE [analyzer EXCEPT !.runs[i].at = "not_ready"]
    /\ UNCHANGED <<pc, reviewData, detSettings, calcSettings, detection,
                   suspicionFactors, suspiciousPatterns, result, stages, calls,
                   storage, handler>>

\* the 500 ms of reanalyze are over: performAnalysis is called
WaitElapsed(i) ==
    /\ i \in 1..Len(analyzer.runs)
    /\ analyzer.runs[i].at = "waiting"
    /\ analyzer' = EnterPerformAnalysis(analyzer, i)
    /\ UNCHANGED <<pc, reviewData, detSettings, calcSettings, detection,
                   suspicionFactors, suspiciousPatterns, result, stages, calls,
                   storage, handler>>

\* performAnalysis after its own checkPageReadiness: displayError and return,
\* or the call of extractReviewData
RecheckedReadiness(i, isReady) ==
    /\ i \in 1..Len(analyzer.runs)
    /\ analyzer.runs[i].at = "checking"
    /\ analyzer' = IF isReady
                   THEN [analyzer EXCEPT !.runs[i].at = "extracting",
                                         !.runs[i].extracted = TRUE]
                   ELSE LeavePerformAnalysis(analyzer, i)
    /\ UNCHANGED <<pc, reviewData, detSettings, calcSettings, detection,
                   suspicionFactors, suspiciousPatterns, result, stages, calls,
                   storage, handler>>

\* performAnalysis after extractReviewData: too few reviews end the run, an
\* exception of the core ends it in the catch block, otherwise the score is
\* rendered and saveAnalysisResult is called
Extracted(i, data) ==
    /\ i \in 1..Len(analyzer.runs)
    /\ analyzer.runs[i].at = "extracting"
    /\ analyzer' =
           IF data.totalReviews < MinimumReviews(analyzer.settings)
           THEN LeavePerformAnalysis(analyzer, i)
           ELSE IF detectAllPatterns(analyzer.settings, data).outcome = "threw"
           THEN LeavePerformAnalysis(analyzer, i)
           ELSE [analyzer EXCEPT !.runs[i].at = "saving",
                                 !.runs[i].rendered = TRUE]
    /\ UNCHANGED <<pc, reviewData, detSettings, calcSettings, detection,
                   suspicionFactors, suspiciousPatterns, result, stages, calls,
                   storage, handler>>

\* ReviewAnalyzer.saveAnalysisResult resolves (it catches its own errors)
Saved(i) ==
    /\ i \in 1..Len(analyzer.runs)
    /\ analyzer.runs[i].at = "saving"
    /\ analyzer' = [LeavePerformAnalysis(analyzer, i) EXCEPT !.runs[i].saved = TRUE]
    /\ UNCHANGED <<pc, reviewData, detSettings, calcSettings, detection,
                   suspicionFactors, suspiciousPatterns, result, stages, calls,
                   storage, handler>>

\* destroy: the initial timer is cleared and the flag is reset
Destroy ==
    /\ analyzer' = [ClearAnalysisTimeout(analyzer) EXCEPT !.isAnalyzing = FALSE]
    /\ UNCHANGED <<pc, reviewData, detSettings, calcSettings, detection,
                   suspicionFactors, suspiciousPatterns, result, stages, calls,
                   storage, handler>>

InitAnalyzer ==
    /\ pc = "analyzing"
    /\ \E settings \in AnalyzerSettings, autoAnalysis \in BOOLEAN :
           analyzer = NewAnalyzer(settings, autoAnalysis)
    /\ reviewData = [ratings |-> NoRatings, totalReviews |-> 0, recentReviews |-> <<>>]
    /\ suspicionFactors = ZeroFactors
    /\ detSettings = <<>>
    /\ calcSettings = <<>>
    /\ detection = <<>>
    /\ suspiciousPatterns = <<>>
    /\ result = <<>>
    /\ stages = <<>>
    /\ calls = <<>>
    /\ storage = <<>>
    /\ handler = <<>>

NextAnalyzer ==
    \/ AnalysisTimeoutFires
    \/ PageLoaded
    \/ PageLoadedTimerFires
    \/ ManualAnalysisRequest
    \/ Reanalyze
    \/ \E i \in 1..MaxRuns, isReady \in BOOLEAN : CheckedReadiness(i, isReady)
    \/ \E i \in 1..MaxRuns : WaitElapsed(i)
    \/ \E i \in 1..MaxRuns, isReady \in BOOLEAN : RecheckedReadiness(i, isReady)
    \/ \E i \in 1..MaxRuns, data \in ExtractedData : Extracted(i, data)
    \/ \E i \in 1..MaxRuns : Saved(i)
    \/ Destroy

SpecAnalyzer == InitAnalyzer /\ [][NextAnalyzer]_vars

-----------------------------------------------------------------------------
(* StorageManager.saveAnalysisResult over chrome.storage.local.  The       *)
(* repository holds two versions of the class: the service-worker one     *)
(* reads ANALYSIS_CONSTANTS?.MAX_HISTORY_ITEMS || 20, the other one reads  *)
(* ANALYSIS_CONSTANTS.MAX_HISTORY_ITEMS.                                   *)

MaxExtraSaves == 2

MaxRevisited == 2

MaxRevisits == 2

MaxOverlap == 2

MaxStored == 1

StorageManagerVersions == {"service_worker", "window"}

\* constructor: this.config = self.MRA_CONFIG || globalThis.MRA_CONFIG, or
\* window.MRA_CONFIG
StorageManager_config == MRA_CONFIG

\* the limit saveAnalysisResult reads from its configuration
MaxItemsOf(version) ==
    IF "ANALYSIS_CONSTANTS" \in DOMAIN StorageManager_config
    THEN [outcome |-> "value",
          value   |-> StorageManager_config.ANALYSIS_CONSTANTS.MAX_HISTORY_ITEMS]
    ELSE IF version = "service_worker"
    THEN [outcome |-> "value", value |-> 20]
    ELSE Threw

\* analysisHistory.findIndex((item) => item.url === newResult.url); 0 for -1
RECURSIVE FindIndexFrom(_, _, _)
FindIndexFrom(analysisHistory, url, i) ==
    IF i > Len(analysisHistory) THEN 0
    ELSE IF analysisHistory[i].url = url THEN i
    ELSE FindIndexFrom(analysisHistory, url, i + 1)

\* the entry built from the analysis data: Date.now() and the url
NewResult(url, now) == [id |-> now, url |-> url]

\* the duplicate check: replace the entry of the same url, else unshift
WithResult(analysisHistory, newResult) ==
    LET existingIndex == FindIndexFrom(analysisHistory, newResult.url, 1)
    IN  IF existingIndex # 0
        THEN [analysisHistory EXCEPT ![existingIndex] = newResult]
        ELSE <<newResult>> \o analysisHistory

\* analysisHistory.splice(maxItems) when the list is longer than maxItems
Splice(analysisHistory, maxItems) ==
    IF Len(analysisHistory) > maxItems
    THEN SubSeq(analysisHistory, 1, maxItems)
    ELSE analysisHistory

\* saveAnalysisResult between the resolved get and the call of set
HistoryToWrite(version, analysisHistory, newResult) ==
    LET updated == WithResult(analysisHistory, newResult)
        maxItems == MaxItemsOf(version)
    IN  IF maxItems.outcome = "threw" THEN Threw
        ELSE [outcome |-> "value", value |-> Splice(updated, maxItems.value)]

\* pages are numbered in the order of their first visit
NextUrl(st) == st.visited + 1

NewStorage(version, analysisHistory, visited) ==
    [version         |-> version,
     analysisHistory |-> analysisHistory,
     clock           |-> visited,
     visited         |-> visited,
     calls           |-> <<>>,
     last            |-> "none"]

\* one saveAnalysisResult call from its start to its end, nothing in between
SaveAnalysisResult(url) ==
    /\ IF url = NextUrl(storage)
       THEN storage.visited < ANALYSIS_CONSTANTS.MAX_HISTORY_ITEMS + MaxExtraSaves
       ELSE /\ url \in 1..MaxRevisited
            /\ url <= storage.visited
            /\ storage.clock - storage.visited < MaxRevisits
    /\ LET now == storage.clock + 1
           written == HistoryToWrite(storage.version, storage.analysisHistory,
                                     NewResult(url, now))
       IN  storage' =
               [storage EXCEPT
                   !.clock = now,
                   !.visited = IF url > @ THEN url ELSE @,
                   !.analysisHistory =
                       IF written.outcome = "threw" THEN @ ELSE written.value,
                   !.last = [url |-> url,
                             outcome |-> IF written.outcome = "threw"
                                         THEN "threw" ELSE "saved"]]
    /\ UNCHANGED <<pc, reviewData, detSettings, calcSettings, detection,
                   suspicionFactors, suspiciousPatterns, result, stages, calls,
                   analyzer, handler>>

InitHistory ==
    /\ pc = "storing"
    /\ \E version \in StorageManagerVersions : storage = NewStorage(version, <<>>, 0)
    /\ reviewData = [ratings |-> NoRatings, totalReviews |-> 0, recentReviews |-> <<>>]
    /\ suspicionFactors = ZeroFactors
    /\ detSettings = <<>>
    /\ calcSettings = <<>>
    /\ detection = <<>>
    /\ suspiciousPatterns = <<>>
    /\ result = <<>>
    /\ stages = <<>>
    /\ calls = <<>>
    /\ analyzer = <<>>
    /\ handler = <<>>

NextHistory ==
    \E url \in 1..(ANALYSIS_CONSTANTS.MAX_HISTORY_ITEMS + MaxExtraSaves) :
        SaveAnalysisResult(url)

SpecHistory == InitHistory /\ [][NextHistory]_vars

\* saveAnalysisResult is called: chrome.storage.local.get is pending
BeginSave(url) ==
    /\ Len(storage.calls) < MaxOverlap
    /\ url <= NextUrl(storage)
    /\ storage' = [storage EXCEPT
                      !.visited = IF url > @ THEN url ELSE @,
                      !.calls = Append(@, [url |-> url, at |-> "reading",
                                           analysisHistory |-> <<>>])]
    /\ UNCHANGED <<pc, reviewData, detSettings, calcSettings, detection,
                   suspicionFactors, suspiciousPatterns, result, stages, calls,
                   analyzer, handler>>

\* get resolves with the stored list; the call builds its list and calls set,
\* or fails on the read of the limit
GetResolved(i) ==
    /\ i \in 1..Len(storage.calls)
    /\ storage.calls[i].at = "reading"
    /\ LET now == storage.clock + 1
           written == HistoryToWrite(storage.version, storage.analysisHistory,
                                     NewResult(storage.calls[i].url, now))
       IN  storage' =
               [storage EXCEPT
                   !.clock = now,
                   !.calls[i].at =
                       IF written.outcome = "threw" THEN "threw" ELSE "writing",
                   !.calls[i].analysisHistory =
                       IF written.outcome = "threw" THEN @ ELSE written.value]
    /\ UNCHANGED <<pc, reviewData, detSettings, calcSettings, detection,
                   suspicionFactors, suspiciousPatterns, result, stages, calls,
                   analyzer, handler>>

\* set resolves: the list of this call is the stored list
SetResolved(i) ==
    /\ i \in 1..Len(storage.calls)
    /\ storage.calls[i].at = "writing"
    /\ storage' = [storage EXCEPT
                      !.analysisHistory = storage.calls[i].analysisHistory,
                      !.calls[i].at = "saved"]
    /\ UNCHANGED <<pc, reviewData, detSettings, calcSettings, detection,
                   suspicionFactors, suspiciousPatterns, result, stages, calls,
                   analyzer, handler>>

\* the histories an overlap starts from: pages 1..n saved one after another
RECURSIVE StoredPages(_)
StoredPages(n) ==
    IF n = 0 THEN <<>> ELSE <<NewResult(n, n)>> \o StoredPages(n - 1)

InitOverlap ==
    /\ pc = "storing"
    /\ \E version \in StorageManagerVersions, n \in 0..MaxStored :
           storage = NewStorage(version, StoredPages(n), n)
    /\ reviewData = [ratings |-> NoRatings, totalReviews |-> 0, recentReviews |-> <<>>]
    /\ suspicionFactors = ZeroFactors
    /\ detSettings = <<>>
    /\ calcSettings = <<>>
    /\ detection = <<>>
    /\ suspiciousPatterns = <<>>
    /\ result = <<>>
    /\ stages = <<>>
    /\ calls = <<>>
    /\ analyzer = <<>>
    /\ handler = <<>>

NextOverlap ==
    \/ \E url \in 1..(MaxStored + MaxOverlap) : BeginSave(url)
    \/ \E i \in 1..MaxOverlap : GetResolved(i)
    \/ \E i \in 1..MaxOverlap : SetResolved(i)

SpecOverlap == InitOverlap /\ [][NextOverlap]_vars

-----------------------------------------------------------------------------
(* MessageHandler.handleMessage.  The repository holds two versions: one   *)
(* validates message and sender before it looks the handler up, the one    *)
(* in src/background/message-handler.js looks the handler up at once.      *)

MaxMessages == 2

MessageHandlerVersions == {"validating", "plain"}

\* initializeHandlers: the storage operations among the registered types
messageHandlers == {"SAVE_ANALYSIS_RESULT", "GET_ANALYSIS_HISTORY"}

\* messages: null, an object without type, two storage requests with and
\* without data, and a type no handler is registered for
MessagePool ==
    {[null |-> TRUE],
     [data |-> "page"],
     [type |-> "SAVE_ANALYSIS_RESULT", data |-> "page"],
     [type |-> "SAVE_ANALYSIS_RESULT"],
     [type |-> "GET_ANALYSIS_HISTORY"],
     [type |-> "PING"]}

\* senders: null, the popup (no tab), and tabs by the hostname of their url,
\* written as the pieces String.prototype.includes is asked about
SenderPool ==
    {[null |-> TRUE],
     [id |-> "extension"],
     [tab |-> [hostname |-> <<"www.", "google.com">>]],
     [tab |-> [hostname |-> <<"evil.example">>]],
     [tab |-> [malformed |-> TRUE]]}

validateMessage(message) ==
    /\ "null" \notin DOMAIN message
    /\ "type" \in DOMAIN message

validateSender(sender) ==
    IF "null" \in DOMAIN sender THEN FALSE
    ELSE IF "tab" \in DOMAIN sender
    THEN /\ "malformed" \notin DOMAIN sender.tab
         /\ \E domain \in {<<"google.com">>, <<"maps.", "google.com">>} :
                Includes(sender.tab.hostname, domain)
    ELSE TRUE

\* the value a storage handler returns: its own catch block turns a failure
\* of the storage call and missing data into success: false
HandlerResult(message, storageFailed) ==
    IF message.type = "SAVE_ANALYSIS_RESULT" /\ "data" \notin DOMAIN message
    THEN [success |-> FALSE, error |-> <<"No analysis data provided">>]
    ELSE IF storageFailed
    THEN [success |-> FALSE, error |-> <<"storage error">>]
    ELSE [success |-> TRUE]

\* handleMessage up to its first await: the responses sent and the handler
\* started, "none" when no handler was called
handleMessage(version, message, sender) ==
    IF "null" \in DOMAIN message
    THEN [responses |-> <<[success |-> FALSE, error |-> <<"TypeError">>]>>,
          handler |-> "none"]
    ELSE IF version = "validating" /\ ~validateMessage(message)
    THEN [responses |-> <<[success |-> FALSE, error |-> <<"Invalid message format">>]>>,
          handler |-> "none"]
    ELSE IF version = "validating" /\ ~validateSender(sender)
    THEN [responses |-> <<[success |-> FALSE, error |-> <<"Invalid sender">>]>>,
          handler |-> "none"]
    ELSE LET type == IF "type" \in DOMAIN message THEN message.type ELSE "undefined"
         IN  IF type \notin messageHandlers
             THEN [responses |-> <<[success |-> FALSE,
                                    error |-> <<"Unknown message type: ", type>>]>>,
                   handler |-> "none"]
             ELSE [responses |-> <<>>, handler |-> type]

\* the listener of BackgroundService.init hands a message to handleMessage
HandleMessage(message, sender) ==
    /\ Len(handler.messages) < MaxMessages
    /\ LET started == handleMessage(handler.version, message, sender)
       IN  handler' = [handler EXCEPT !.messages =
               Append(@, [message   |-> message,
                          sender    |-> sender,
                          handler   |-> started.handler,
                          at        |-> IF started.handler = "none"
                                        THEN "responded" ELSE "handling",
                          responses |-> started.responses])]
    /\ UNCHANGED <<pc, reviewData, detSettings, calcSettings, detection,
                   suspicionFactors, suspiciousPatterns, result, stages, calls,
                   analyzer, storage>>

\* the awaited handler returns and its result is sent
HandlerReturned(i, storageFailed) ==
    /\ i \in 1..Len(handler.messages)
    /\ handler.messages[i].at = "handling"
    /\ handler' = [handler EXCEPT
           !.messages[i].at = "responded",
           !.messages[i].responses =
               Append(@, HandlerResult(handler.messages[i].message, storageFailed))]
    /\ UNCHANGED <<pc, reviewData, detSettings, calcSettings, detection,
                   suspicionFactors, suspiciousPatterns, result, stages, calls,
                   analyzer, storage>>

InitMessages ==
    /\ pc = "listening"
    /\ \E version \in MessageHandlerVersions :
           handler = [version |-> version, messages |-> <<>>]
    /\ reviewData = [ratings |-> NoRatings, totalReviews |-> 0, recentReviews |-> <<>>]
    /\ suspicionFactors = ZeroFactors
    /\ detSettings = <<>>
    /\ calcSettings = <<>>
    /\ detection = <<>>
    /\ suspiciousPatterns = <<>>
    /\ result = <<>>
    /\ stages = <<>>
    /\ calls = <<>>
    /\ analyzer = <<>>
    /\ storage = <<>>

NextMessages ==
    \/ \E message \in MessagePool, sender \in SenderPool : HandleMessage(message, sender)
    \/ \E i \in 1..MaxMessages, storageFailed \in BOOLEAN : HandlerReturned(i, storageFailed)

SpecMessages == InitMessages /\ [][NextMessages]_vars

Spec == SpecScore

-----------------------------------------------------------------------------
(* Properties                                                              *)

\* C1: every result of calculateTrustScore carries an integer score with
\* 10 <= score <= 100.
C1_ScoreBounded == pc = "scored" => result[1].score \in 10..100

\* the adjusted score fell below 10 and the result reports 10
C1_Witness == pc = "scored" /\ QLt(stages[5], QInt(10)) /\ result[1].score = 10

\* the level the thresholds 80 / 60 / 40 give the returned integer score
LevelOfScore(score) ==
    IF score >= 80 THEN "high"
    ELSE IF score >= 60 THEN "medium"
    ELSE IF score >= 40 THEN "low"
    ELSE "very_low"

\* C2: in every result the level is the one the returned integer score falls
\* in: high iff score >= 80, medium iff 60 <= score < 80, low iff
\* 40 <= score < 60, very_low iff score < 40.
C2_LevelMatchesScore == pc = "scored" => result[1].level = LevelOfScore(result[1].score)

\* C3: the review-count adjustment applies exactly one band: below 5 reviews
\* the score is multiplied by 0.8, from 5 to 9 by 0.9, above 100 it becomes
\* min(score * 1.05, 100), and from 10 to 100 it is unchanged.
C3_ReviewCountBands ==
    pc = "scored" =>
        LET totalReviews == reviewData.totalReviews
            score == stages[1]
        IN  stages[2] =
                IF totalReviews < 5 THEN QMul(score, Q(8, 10))
                ELSE IF totalReviews < 10 THEN QMul(score, Q(9, 10))
                ELSE IF totalReviews > 100 THEN QMin(QMul(score, Q(105, 100)), QInt(100))
                ELSE score

\* two calls that differ only in one suspicion factor, larger in the second
OneFactorRaised(first, second) ==
    /\ first.settings = second.settings
    /\ first.patterns = second.patterns
    /\ first.data = second.data
    /\ \E k \in FactorKeys :
           /\ QLt(first.factors[k], second.factors[k])
           /\ \A other \in FactorKeys \ {k} : first.factors[other] = second.factors[other]

\* C4: of two calls that differ only in one suspicion factor, the call with the
\* larger factor returns a score less than or equal to the other's.
C4_Monotone ==
    \A i, j \in 1..Len(calls) :
        OneFactorRaised(calls[i], calls[j]) =>
            calls[j].result.score <= calls[i].result.score

\* a raised factor has strictly lowered the score
C4_Witness ==
    \E i, j \in 1..Len(calls) :
        /\ OneFactorRaised(calls[i], calls[j])
        /\ calls[j].result.score < calls[i].result.score

\* C5: with the configuration as shipped, detectAllPatterns and
\* calculateTrustScore complete without throwing on every well-formed dataset
\* and settings object.
C5_NoThrow == detection # <<>> => detection[1].outcome = "returned"

\* C6: for a dataset with totalReviews = 0 and any recentReviews, the detection
\* does not throw, the naturalness is 0 and none of the five heuristics
\* reports a pattern.
C6_EmptyDataSafe ==
    (reviewData.totalReviews = 0 /\ detection # <<>>) =>
        /\ detection[1].outcome = "returned"
        /\ detection[1].suspiciousPatterns = <<>>
        /\ detection[1].suspicionFactors = ZeroFactors
        /\ NaturalnessIsZero(calculateRatingNaturalness(reviewData.ratings,
                                                        reviewData.totalReviews))

SameInputs(first, second) ==
    /\ first.settings = second.settings
    /\ first.factors = second.factors
    /\ first.patterns = second.patterns
    /\ first.data = second.data

ModeOnlyScenario ==
    /\ suspicionFactors = ZeroFactors
    /\ suspiciousPatterns = <<>>
    /\ reviewData.totalReviews = 50
    /\ LET naturalness == calculateRatingNaturalness(reviewData.ratings,
                                                     reviewData.totalReviews)
       IN  /\ ~NaturalnessAbove(naturalness, 8, 10)
           /\ ~NaturalnessBelow(naturalness, 3, 10)

\* C8: the analysis-mode adjustment multiplies the score by 0.95 in strict
\* mode, gives min(score * 1.05, 100) in lenient mode and leaves it unchanged
\* in standard mode and for an absent or unrecognized mode; in the scenario
\* above the final score is 95 in strict mode and 100 otherwise.
C8_ModeAdjustment ==
    pc = "scored" =>
        LET strict == "analysisMode" \in DOMAIN calcSettings
                      /\ calcSettings.analysisMode = "strict"
            lenient == "analysisMode" \in DOMAIN calcSettings
                       /\ calcSettings.analysisMode = "lenient"
        IN  /\ stages[5] =
                   IF strict THEN QMul(stages[4], Q(95, 100))
                   ELSE IF lenient THEN QMin(QMul(stages[4], Q(105, 100)), QInt(100))
                   ELSE stages[4]
            /\ ModeOnlyScenario => result[1].score = IF strict THEN 95 ELSE 100

\* the scenario scored in strict mode
C8_Witness ==
    /\ pc = "scored"
    /\ ModeOnlyScenario
    /\ ModeOf(calcSettings) = "strict"
    /\ result[1].score = 95

\* the condition C9 gives for a polarized distribution
PolarizedCondition(settings, data) ==
    LET minimum == IF "minimumReviewsForAnalysis" \in DOMAIN settings
                   THEN settings.minimumReviewsForAnalysis ELSE 5
        mode == IF "analysisMode" \in DOMAIN settings
                THEN settings.analysisMode ELSE "standard"
        tenths == IF mode = "strict" THEN 6 ELSE IF mode = "lenient" THEN 8 ELSE 7
        extreme == data.ratings[1] + data.ratings[5]
        middle == data.ratings[2] + data.ratings[3] + data.ratings[4]
    IN  /\ data.totalReviews >= minimum
        /\ data.totalReviews > 0
        /\ 10 * extreme > tenths * data.totalReviews
        /\ 10 * middle < 2 * data.totalReviews

\* C9: detectPolarizedRatings reports detected:true exactly when
\* totalReviews >= minimumReviewsForAnalysis, totalReviews > 0, the extreme
\* ratio exceeds the mode's threshold (0.6 strict, 0.8 lenient, 0.7 otherwise)
\* and the middle ratio is below 0.2; when detected its score is
\* min(extremeRatio * 100, 90) and its severity is HIGH.
C9_PolarizedExactly ==
    pc # "idle" =>
        LET found == detectPolarizedRatings(detSettings, reviewData)
            extreme == reviewData.ratings[1] + reviewData.ratings[5]
        IN  /\ (found.outcome = "detected") <=> PolarizedCondition(detSettings, reviewData)
            /\ found.outcome = "detected" =>
                   /\ found.score = QMin(Q(100 * extreme, reviewData.totalReviews),
                                         QInt(90))
                   /\ found.pattern.severity = "high"

\* the texts C10 keeps, and the pairs it counts
LongTexts(data) ==
    SelectSeq([i \in 1..Len(data.recentReviews) |-> data.recentReviews[i].text],
              LAMBDA text : TextLength(text) > 5)

JaccardAboveFourFifths(text1, text2) ==
    LET a == {ToLowerCase(text1[i]) : i \in 1..Len(text1)}
        b == {ToLowerCase(text2[i]) : i \in 1..Len(text2)}
    IN  5 * Cardinality(a \cap b) > 4 * Cardinality(a \cup b)

SimilarPairCount(texts) ==
    Cardinality({p \in (1..Len(texts)) \X (1..Len(texts)) :
                    p[1] < p[2] /\ JaccardAboveFourFifths(texts[p[1]], texts[p[2]])})

\* two identical texts and a third that shares no word with them
DuplicateScenario ==
    reviewData.recentReviews = <<ReviewKinds[1], ReviewKinds[1], ReviewKinds[5]>>

\* C10: detectDuplicatePatterns reports detected:false when fewer than 3 texts
\* are longer than 5 characters; otherwise it is detected iff at least one
\* pair of them has a Jaccard similarity above 0.8, with score
\* min(pairs * 15 * 1.2, 100); two identical texts and an unrelated one give
\* one pair and the score 18.
C10_DuplicatesExactly ==
    pc # "idle" =>
        LET found == detectDuplicatePatterns(detSettings, reviewData)
            texts == LongTexts(reviewData)
            pairs == SimilarPairCount(texts)
        IN  /\ Len(texts) < 3 => found.outcome = "not_detected"
            /\ Len(texts) >= 3 =>
                   /\ (found.outcome = "detected") <=> pairs >= 1
                   /\ found.outcome = "detected" =>
                          found.score = QMin(QInt(18 * pairs), QInt(100))
            /\ DuplicateScenario =>
                   /\ pairs = 1
                   /\ found.outcome = "detected"
                   /\ found.score = QInt(18)

\* the lower-cased tokens of a text
TokenSet(text) == {ToLowerCase(text[i]) : i \in 1..Len(text)}

\* C11: calculateTextSimilarity(a, b) is in [0, 1] for non-empty a and b, is 1
\* when a and b have the same lower-cased token set, is 0 when they share no
\* token, and is 0 when either argument is empty.
C11_JaccardBounds ==
    pc = "compared" =>
        LET a == reviewData.recentReviews[1].text
            b == reviewData.recentReviews[2].text
            similarity == result[1]
        IN  /\ (a # <<>> /\ b # <<>>) =>
                   /\ QLe(QInt(0), similarity) /\ QLe(similarity, QInt(1))
                   /\ TokenSet(a) = TokenSet(b) => similarity = QInt(1)
                   /\ TokenSet(a) \cap TokenSet(b) = {} => similarity = QInt(0)
            /\ (a = <<>> \/ b = <<>>) => similarity = QInt(0)

\* two different texts with the same token set compared to 1
C11_Witness ==
    /\ pc = "compared"
    /\ reviewData.recentReviews[1].text # reviewData.recentReviews[2].text
    /\ reviewData.recentReviews[1].text # <<>>
    /\ TokenSet(reviewData.recentReviews[1].text)
           = TokenSet(reviewData.recentReviews[2].text)
    /\ result[1] = QInt(1)

\* the fixed order of the pattern types
HeuristicOrder ==
    <<"polarized_ratings", "burst_posting", "short_reviews", "duplicate_patterns",
      "new_accounts">>

RECURSIVE IsSubsequence(_, _)
IsSubsequence(s, t) ==
    IF s = <<>> THEN TRUE
    ELSE IF t = <<>> THEN FALSE
    ELSE IF Head(s) = Head(t) THEN IsSubsequence(Tail(s), Tail(t))
    ELSE IsSubsequence(s, Tail(t))

\* C12: detectAllPatterns evaluates all five heuristics on every call; each
\* factor is the score of its heuristic when detected and 0 otherwise, the
\* pattern of a heuristic is appended only when detected, and so the types of
\* suspiciousPatterns are a subsequence of polarized_ratings, burst_posting,
\* short_reviews, duplicate_patterns, new_accounts.
C12_CollectsAllHeuristics ==
    pc # "idle" =>
        LET heuristics == Heuristics(detSettings, reviewData)
            reported == SelectSeq(heuristics, LAMBDA h : h.found.outcome = "detected")
        IN  /\ \A i \in 1..5 : heuristics[i].found.outcome \in {"detected", "not_detected"}
            /\ detection[1].outcome = "returned"
            /\ \A i \in 1..5 :
                   detection[1].suspicionFactors[heuristics[i].factor] =
                       IF heuristics[i].found.outcome = "detected"
                       THEN heuristics[i].found.score ELSE QInt(0)
            /\ detection[1].suspiciousPatterns =
                   [i \in 1..Len(reported) |-> reported[i].found.pattern]
            /\ IsSubsequence([i \in 1..Len(detection[1].suspiciousPatterns) |->
                                  detection[1].suspiciousPatterns[i].type],
                             HeuristicOrder)

\* the ideal ratios 0.05, 0.05, 0.15, 0.35, 0.40 in percent
IdealPercent == <<5, 5, 15, 35, 40>>

\* the sum over the stars of (100 * count - idealPercent * totalReviews)^2,
\* which is (100 * totalReviews)^2 times the sum of the squared ratio differences
SumOfSquares(ratings, totalReviews) ==
    LET square(i) == (100 * ratings[i] - IdealPercent[i] * totalReviews)
                     * (100 * ratings[i] - IdealPercent[i] * totalReviews)
    IN  square(1) + square(2) + square(3) + square(4) + square(5)

\* C13: calculateRatingNaturalness returns max(0, 1 - sqrt(sum over the stars of
\* (observedRatio - idealRatio)^2)) with ideal ratios 0.05, 0.05, 0.15, 0.35,
\* 0.40; the value is in [0, 1], it is 0 when totalReviews = 0 and 1 for the
\* ratings 5, 5, 15, 35, 40 of 100 reviews.
C13_Naturalness ==
    pc = "measured" =>
        LET ratings == reviewData.ratings
            totalReviews == reviewData.totalReviews
            naturalness == result[1]
        IN  /\ naturalness.sq >= 0 /\ naturalness.den > 0
            /\ totalReviews = 0 => NaturalnessIsZero(naturalness)
            /\ totalReviews # 0 =>
                   /\ naturalness.den = 20 * totalReviews
                   /\ 25 * naturalness.sq = SumOfSquares(ratings, totalReviews)
            /\ NaturalnessIsZero(naturalness) <=>
                   (totalReviews = 0
                    \/ SumOfSquares(ratings, totalReviews)
                           >= 100 * totalReviews * 100 * totalReviews)
            /\ (ratings = <<5, 5, 15, 35, 40>> /\ totalReviews = 100) =>
                   NaturalnessIsOne(naturalness)

\* the ideal distribution measured as 1
C13_Witness ==
    /\ pc = "measured"
    /\ reviewData.ratings = <<5, 5, 15, 35, 40>>
    /\ reviewData.totalReviews = 100
    /\ NaturalnessIsOne(result[1])

FactorMaximum ==
    [polarizedRatings |-> 90, burstPosting |-> 80, shortReviews |-> 60,
     duplicatePatterns |-> 100, newAccounts |-> 50]

WeightTenths ==
    [polarizedRatings |-> 10, burstPosting |-> 8, shortReviews |-> 6,
     duplicatePatterns |-> 12, newAccounts |-> 5]

\* ten times the weighted value of one key of a factor map
WeightedTenths(factors, k) ==
    IF k \notin DOMAIN factors \/ factors[k] = undefined THEN 0
    ELSE factors[k].n * (IF k \in DOMAIN WeightTenths THEN WeightTenths[k] ELSE 10)

\* C16: calculateBaseScore returns 100 minus the weighted sum of the suspicion
\* factors with weights polarizedRatings 1.0, burstPosting 0.8, shortReviews
\* 0.6, duplicatePatterns 1.2, newAccounts 0.5; a key the weight table does
\* not hold is weighted 1.0 and a missing value counts as 0.
C16_BaseScore ==
    pc = "based" =>
        result[1] = Q(1000 - WeightedTenths(suspicionFactors, "polarizedRatings")
                           - WeightedTenths(suspicionFactors, "burstPosting")
                           - WeightedTenths(suspicionFactors, "shortReviews")
                           - WeightedTenths(suspicionFactors, "duplicatePatterns")
                           - WeightedTenths(suspicionFactors, "newAccounts")
                           - WeightedTenths(suspicionFactors, "otherFactor"),
                      10)

\* a map with an unknown key, a weighted factor and a property without a
\* number gave 100 - 16 * 1.0 - 60 * 1.2 = 12
C16_Witness ==
    /\ pc = "based"
    /\ DOMAIN suspicionFactors = {"otherFactor", "duplicatePatterns", "newAccounts"}
    /\ suspicionFactors["otherFactor"] = QInt(16)
    /\ suspicionFactors["duplicatePatterns"] = QInt(60)
    /\ suspicionFactors["newAccounts"] = undefined
    /\ result[1] = QInt(12)

\* the number of patterns of one severity in a list
SeverityCount(patterns, severity) ==
    Cardinality({i \in 1..Len(patterns) : patterns[i].severity = severity})

C18_NaturalnessAdjustment ==
    pc = "scored" =>
        LET naturalness == calculateRatingNaturalness(reviewData.ratings,
                                                      reviewData.totalReviews)
        IN  stages[4] =
                IF reviewData.totalReviews < 5 THEN stages[3]
                ELSE IF NaturalnessAbove(naturalness, 8, 10)
                THEN QMin(QMul(stages[3], Q(103, 100)), QInt(100))
                ELSE IF NaturalnessBelow(naturalness, 3, 10)
                THEN QMul(stages[3], Q(95, 100))
                ELSE stages[3]

\* an unnatural distribution of at least 5 reviews cost 5% of the score
C18_Witness ==
    /\ pc = "scored"
    /\ reviewData.totalReviews >= 5
    /\ NaturalnessBelow(calculateRatingNaturalness(reviewData.ratings,
                                                   reviewData.totalReviews), 3, 10)
    /\ stages[3] # QInt(0)
    /\ stages[4] = QMul(stages[3], Q(95, 100))

\* the number of reviews of a list that satisfy a condition
CountReviews(reviews, Test(_)) == Cardinality({i \in 1..Len(reviews) : Test(reviews[i])})

\* the dateText holds one of the recent-date keywords
HasRecentDate(review) ==
    \E keyword \in getRecentDateKeywords : Includes(review.dateText, keyword)

\* C19: detectBurstPosting reports detected:true exactly when the number
\* recentCount of recentReviews whose dateText holds a recent-date keyword is
\* greater than 5 and recentCount / max(totalReviews, recentReviews.length)
\* exceeds 0.3, whatever the analysis mode; when detected its score is
\* min(burstRatio * 100 * 0.8, 80) and its severity is MEDIUM.
C19_BurstExactly ==
    pc # "idle" =>
        LET found == detectBurstPosting(detSettings, reviewData)
            recentCount == CountReviews(reviewData.recentReviews, HasRecentDate)
            larger == IF reviewData.totalReviews > Len(reviewData.recentReviews)
                      THEN reviewData.totalReviews
                      ELSE Len(reviewData.recentReviews)
        IN  /\ (found.outcome = "detected") <=>
                   (recentCount > 5 /\ 10 * recentCount > 3 * larger)
            /\ found.outcome = "detected" =>
                   /\ found.score = QMin(Q(80 * recentCount, larger), QInt(80))
                   /\ found.pattern.severity = "medium"

IsShort(review) == review.textLength > 0 /\ review.textLength < 10

IsFromNewAccount(review) ==
    ~review.hasPhotos /\ review.textLength > 0 /\ review.textLength < 20

\* C20: over all recentReviews, detectShortReviews is detected iff
\* count(0 < textLength < 10) / recentReviews.length > 0.4, with score
\* min(ratio * 100 * 0.6, 60) and severity LOW; detectNewAccounts is detected
\* iff count(no photos and 0 < textLength < 20) / recentReviews.length > 0.3,
\* with score min(ratio * 100 * 0.5, 50) and severity MEDIUM; both report
\* detected:false for an empty recentReviews.
C20_LengthHeuristics ==
    pc # "idle" =>
        LET reviews == reviewData.recentReviews
            short == detectShortReviews(detSettings, reviewData)
            new == detectNewAccounts(detSettings, reviewData)
            shortCount == CountReviews(reviews, IsShort)
            newCount == CountReviews(reviews, IsFromNewAccount)
        IN  /\ reviews = <<>> =>
                   short.outcome = "not_detected" /\ new.outcome = "not_detected"
            /\ reviews # <<>> =>
                   /\ (short.outcome = "detected") <=> (10 * shortCount > 4 * Len(reviews))
                   /\ short.outcome = "detected" =>
                          /\ short.score = QMin(Q(60 * shortCount, Len(reviews)), QInt(60))
                          /\ short.pattern.severity = "low"
                   /\ (new.outcome = "detected") <=> (10 * newCount > 3 * Len(reviews))
                   /\ new.outcome = "detected" =>
                          /\ new.score = QMin(Q(50 * newCount, Len(reviews)), QInt(50))
                          /\ new.pattern.severity = "medium"

\* the concerns of one type in a list
ConcernsOfType(concerns, type) == SelectSeq(concerns, LAMBDA c : c.type = type)

\* the patterns of severity HIGH, in list order
HighPatterns(patterns) == SelectSeq(patterns, LAMBDA p : p.severity = "high")

C22_Recommendations ==
    pc = "scored" =>
        LET concerns == result[1].details.mainConcerns
            recommendations == result[1].details.recommendations
            risk == IF Len(concerns) = 0 THEN "low_risk"
                    ELSE IF Len(concerns) = 1 THEN "moderate_risk"
                    ELSE "high_risk"
        IN  recommendations =
                IF Len(ConcernsOfType(concerns, "high_severity_patterns")) > 0
                THEN <<risk, "detailed_check">>
                ELSE <<risk>>

\* a single dominant_factor concern gave moderate_risk alone
C22_Witness ==
    /\ pc = "scored"
    /\ Len(result[1].details.mainConcerns) = 1
    /\ result[1].details.mainConcerns[1].type = "dominant_factor"
    /\ result[1].details.recommendations = <<"moderate_risk">>

\* the confidence computed from a reported final score
ConfidenceFor(factors, reported) ==
    LET nonZero == Cardinality({k \in FactorKeys : QLt(QInt(0), factors[k])})
        sum == FactorSum(factors, FactorKeys)
        c0 == Q(80, 100)
        c1 == IF reported > 90 \/ reported < 20 THEN QSub(c0, Q(10, 100)) ELSE c0
        c2 == IF nonZero >= 3 THEN QAdd(c1, Q(10, 100)) ELSE c1
        c3 == IF QLt(QInt(20), QMul(sum, Q(1, 5))) THEN QAdd(c2, Q(5, 100)) ELSE c2
    IN  QMax(Q(50, 100), QMin(QInt(1), c3))

\* C23: breakdown.confidence is 0.8, minus 0.1 if the final score reported in
\* the result is above 90 or below 20, plus 0.1 if at least 3 suspicion
\* factors are non-zero, plus 0.05 if the sum of the five factors divided by
\* 5 exceeds 20, clamped to [0.5, 1.0].
C23_Confidence ==
    pc = "scored" =>
        /\ result[1].breakdown.finalScore = result[1].score
        /\ result[1].breakdown.confidence =
               ConfidenceFor(suspicionFactors, result[1].score)

\* C24: for non-negative suspicion factors no stage of applyAdjustments
\* yields more than 100, so only the lower bound 10 of the clamp in
\* calculateTrustScore can change the value, and breakdown.adjustedScore is
\* at most 100.
C24_AdjustedAtMostHundred ==
    pc = "scored" =>
        /\ \A i \in 1..Len(stages) : QLe(stages[i], QInt(100))
        /\ result[1].breakdown.adjustedScore <= 100
        /\ result[1].score = Round(QMax(QInt(10), stages[Len(stages)]))

\* the review-count bonus hit its cap and the adjusted score stayed at 100
C24_Witness ==
    /\ pc = "scored"
    /\ reviewData.totalReviews > 100
    /\ QLt(QInt(100), QMul(stages[1], Q(105, 100)))
    /\ stages[2] = QInt(100)
    /\ stages[Len(stages)] = QInt(100)
    /\ result[1].breakdown.adjustedScore = 100

\* the pattern type that belongs to each suspicion factor
TypeOfFactor ==
    [polarizedRatings  |-> "polarized_ratings",
     burstPosting      |-> "burst_posting",
     shortReviews      |-> "short_reviews",
     duplicatePatterns |-> "duplicate_patterns",
     newAccounts       |-> "new_accounts"]

C26_RecommendationShape ==
    pc = "scored" =>
        LET concerns == result[1].details.mainConcerns
            recommendations == result[1].details.recommendations
            has(r) == \E i \in 1..Len(recommendations) : recommendations[i] = r
        IN  /\ Len(recommendations) \in {1, 2}
            /\ has("high_risk") => has("detailed_check")
            /\ has("low_risk") => ~has("detailed_check")
            /\ Len(concerns) = 2 =>
                   /\ concerns[1].type = "high_severity_patterns"
                   /\ concerns[2].type = "dominant_factor"

\* a high_risk recommendation followed by detailed_check
C26_Witness ==
    /\ pc = "scored"
    /\ result[1].details.recommendations = <<"high_risk", "detailed_check">>

\* the performAnalysis runs that are past the isAnalyzing guard
RunsPastGuard ==
    {i \in 1..Len(analyzer.runs) :
        analyzer.runs[i].at \in {"checking", "extracting", "saving"}}

\* C27: for one ReviewAnalyzer, under every interleaving of its triggers
\* (initial timer, PAGE_LOADED timers, MANUAL_ANALYSIS_REQUEST, reanalyze,
\* destroy), at most one performAnalysis run is past the isAnalyzing guard; a
\* call arriving while a run is in flight returns without extracting,
\* rendering or saving, and the flag of the run in flight stays set.
C27_OneRunPastGuard ==
    pc = "analyzing" =>
        /\ Cardinality(RunsPastGuard) <= 1
        /\ RunsPastGuard # {} => analyzer.isAnalyzing
        /\ \A i \in 1..Len(analyzer.runs) :
               analyzer.runs[i].at = "skipped" =>
                   /\ ~analyzer.runs[i].extracted
                   /\ ~analyzer.runs[i].rendered
                   /\ ~analyzer.runs[i].saved

\* the urls of a history, in list order
UrlsOf(analysisHistory) == [i \in 1..Len(analysisHistory) |-> analysisHistory[i].url]

\* the position of a url in a history, 0 when absent
PositionOf(analysisHistory, url) ==
    IF \E i \in 1..Len(analysisHistory) : analysisHistory[i].url = url
    THEN CHOOSE i \in 1..Len(analysisHistory) : analysisHistory[i].url = url
    ELSE 0

\* what C28 says one save of a url does to a history
SaveEffect(old, new, url) ==
    LET k == PositionOf(old, url)
    IN  IF k # 0
        THEN /\ Len(new) = Len(old)
             /\ new[k].url = url
             /\ \A i \in 1..Len(old) : i # k => new[i] = old[i]
        ELSE /\ Len(new) = (IF Len(old) < 20 THEN Len(old) + 1 ELSE 20)
             /\ new[1].url = url
             /\ \A i \in 2..Len(new) : new[i] = old[i - 1]

\* C28: after any sequence of saveAnalysisResult calls executed one after
\* another from an empty history, analysisHistory has at most 20 entries and
\* no two share a url; saving a present url replaces its entry in place,
\* saving a new url inserts it at the front, and entries beyond the 20th are
\* dropped from the end.
C28_HistoryBounded ==
    /\ [](pc = "storing" =>
            /\ Len(storage.analysisHistory) <= 20
            /\ \A i, j \in 1..Len(storage.analysisHistory) :
                   storage.analysisHistory[i].url = storage.analysisHistory[j].url
                       => i = j)
    /\ [][pc = "storing" /\ storage'.clock # storage.clock =>
              SaveEffect(storage.analysisHistory, storage'.analysisHistory,
                         storage'.last.url)]_vars

\* the urls whose overlapping calls all ended with a resolved set
SavedUrls == {storage.calls[i].url : i \in 1..Len(storage.calls)}

\* C29: when two saveAnalysisResult calls for different urls overlap and both
\* complete successfully with the history below its cap, the stored
\* analysisHistory afterwards holds an entry for both urls.
C29_NoLostUpdate ==
    (/\ pc = "storing"
     /\ Len(storage.calls) >= 2
     /\ \A i \in 1..Len(storage.calls) : storage.calls[i].at = "saved"
     /\ \A i, j \in 1..Len(storage.calls) :
            storage.calls[i].url = storage.calls[j].url => i = j)
        => \A url \in SavedUrls : PositionOf(storage.analysisHistory, url) # 0

\* C30: for every message given to handleMessage, sendResponse is invoked
\* exactly once on every path: a malformed message and a rejected sender get
\* success: false, an unknown type gets success: false with the error
\* 'Unknown message type: ...', a handler that returns gets its result sent;
\* no storage handler runs for a message that failed validation.
C30_OneResponse ==
    pc = "listening" =>
        \A i \in 1..Len(handler.messages) :
            LET m == handler.messages[i]
                valid == validateMessage(m.message) /\ validateSender(m.sender)
            IN  /\ Len(m.responses) = (IF m.at = "responded" THEN 1 ELSE 0)
                /\ ~valid =>
                       /\ m.handler = "none"
                       /\ m.responses[1].success = FALSE
                /\ (valid /\ m.message.type \notin messageHandlers) =>
                       m.responses =
                           <<[success |-> FALSE,
                              error |-> <<"Unknown message type: ", m.message.type>>]>>
                /\ (m.handler # "none" /\ m.at = "responded") =>
                       \E storageFailed \in BOOLEAN :
                           m.responses = <<HandlerResult(m.message, storageFailed)>>

====
